---- MODULE Spec2Model ----
(***************************************************************************)
(* EdFS: the on-disk engine of edfs-common.c and the directory / path      *)
(* layer of edfuse.c, as a state machine over one file system image.       *)
(*                                                                         *)
(* The image is kept word-granular: one "unit" stands for one field of an  *)
(* on-disk record.  A directory entry is two units (inumber, filename), a  *)
(* block number in an indirect block is one unit, a byte of file data is   *)
(* one unit.  Every unit is a natural number, so any block can be read as  *)
(* file data, as directory entries or as an indirect block, as the C code  *)
(* does through memcpy.  The filename field holds the index of the name in *)
(* NameTable (0: the empty string).                                        *)
(*                                                                         *)
(* The backing store never fails: pread/pwrite inside the image transfer   *)
(* the full count.                                                         *)
(*                                                                         *)
(* A value a C function computes once and then reads several times is      *)
(* bound once here too, as  CHOOSE out \in {e(x) : x \in {v}} : TRUE,       *)
(* "e with x the value of v": TLA+ operators take their arguments by name. *)
(***************************************************************************)
EXTENDS Integers, Sequences, FiniteSets, TLC

(***************************************************************************)
(* Bounds of the model.                                                    *)
(***************************************************************************)
\* img->sb.inode_table_n_inodes of the images explored
MaxInodes == 4
\* img->sb.n_blocks of the images explored (two bitmap bytes)
MaxBlocks == 9
\* largest value of a uint32_t in the model (the width is scaled down)
UINT32_MAX == 63

(***************************************************************************)
(* errno values returned negated.                                          *)
(***************************************************************************)
ENOENT == 2
EIO == 5
EEXIST == 17
ENOTDIR == 20
EINVAL == 22
ENOSPC == 28
ENAMETOOLONG == 36
ENOSYS == 38
ENOTEMPTY == 39
ENOMSG == 42

(***************************************************************************)
(* edfs-common.h (not part of the sources at hand).                        *)
(***************************************************************************)
EDFS_BLOCK_INVALID == 0
EDFS_INODE_TYPE_FREE == 0
EDFS_INODE_TYPE_FILE == 1
EDFS_INODE_TYPE_DIRECTORY == 2
EDFS_INODE_N_DIRECT_BLOCKS == 2
EDFS_FILENAME_SIZE == 60
\* sizeof(edfs_dir_entry_t), in units: inumber, filename
SizeofDirEntry == 2
\* sizeof(edfs_block_t), in units
SizeofBlockT == 1
\* sizeof(edfs_disk_inode_t), in units: type, size, direct[], indirect
SizeofDiskInode == 3 + EDFS_INODE_N_DIRECT_BLOCKS

\* img->sb.block_size of the images explored: two directory entries a block
BlockSize == 4

\* sb: the superblock; bitmap, inodes, blocks: the image; uninit: the value an
\* uninitialised edfs_block_t on the stack holds; last: the call just made
VARIABLES sb, bitmap, inodes, blocks, uninit, last, proc

vars == <<sb, bitmap, inodes, blocks, uninit, last, proc>>

(***************************************************************************)
(* Small helpers.                                                          *)
(***************************************************************************)
Min(a, b) == IF a < b THEN a ELSE b

\* x as a uint32_t
U32(x) == x % (UINT32_MAX + 1)

Zeros(n) == [i \in 1..n |-> 0]

\* memset(&disk_inode, 0, sizeof(edfs_disk_inode_t))
ZeroDiskInode ==
    [type |-> 0, size |-> 0,
     direct |-> Zeros(EDFS_INODE_N_DIRECT_BLOCKS), indirect |-> 0]

\* the superblock of the images explored
SuperBlock ==
    [block_size |-> BlockSize, n_blocks |-> MaxBlocks,
     inode_table_n_inodes |-> MaxInodes, root_inumber |-> 1]

(***************************************************************************)
(* Inode table (edfs-common.c).  An in-memory edfs_inode_t is a record     *)
(* [inumber, inode]; a call returns [ret, inode] or [ret, tbl].            *)
(***************************************************************************)
\* edfs_read_inode: a failed read leaves the caller's record as it was
edfs_read_inode(tbl, inode) ==
    IF inode.inumber >= sb.inode_table_n_inodes
    THEN [ret |-> -ENOENT, inode |-> inode]
    ELSE [ret |-> SizeofDiskInode,
          inode |-> [inumber |-> inode.inumber, inode |-> tbl[inode.inumber]]]

\* edfs_read_root_inode
edfs_read_root_inode(tbl, inode) ==
    edfs_read_inode(tbl, [inode EXCEPT !.inumber = sb.root_inumber])

\* a write that reports the full count and stores nothing
edfs_write_inode_dropped(tbl, inode) ==
    IF inode.inumber >= sb.inode_table_n_inodes
    THEN [ret |-> -ENOENT, tbl |-> tbl]
    ELSE [ret |-> SizeofDiskInode, tbl |-> tbl]

\* a write that stores the record one slot too far
edfs_write_inode_shifted(tbl, inode) ==
    IF inode.inumber >= sb.inode_table_n_inodes
    THEN [ret |-> -ENOENT, tbl |-> tbl]
    ELSE [ret |-> SizeofDiskInode,
          tbl |-> [tbl EXCEPT ![(inode.inumber + 1) % sb.inode_table_n_inodes]
                                  = inode.inode]]

\* edfs_write_inode
edfs_write_inode(tbl, inode) ==
    IF inode.inumber >= sb.inode_table_n_inodes
    THEN [ret |-> -ENOENT, tbl |-> tbl]
    ELSE [ret |-> SizeofDiskInode,
          tbl |-> [tbl EXCEPT ![inode.inumber] = inode.inode]]

\* a clear that reports the full count and leaves the record
edfs_clear_inode_kept(tbl, inode) ==
    IF inode.inumber >= sb.inode_table_n_inodes
    THEN [ret |-> -ENOENT, tbl |-> tbl]
    ELSE [ret |-> SizeofDiskInode, tbl |-> tbl]

\* edfs_clear_inode
edfs_clear_inode(tbl, inode) ==
    IF inode.inumber >= sb.inode_table_n_inodes
    THEN [ret |-> -ENOENT, tbl |-> tbl]
    ELSE [ret |-> SizeofDiskInode,
          tbl |-> [tbl EXCEPT ![inode.inumber] = ZeroDiskInode]]

\* a scan that takes the first inumber without reading its type
find_free_from_untyped(tbl, i) ==
    IF i >= sb.inode_table_n_inodes THEN 0 ELSE i

\* the loop of edfs_find_free_inode, from inumber i on
RECURSIVE find_free_from(_, _)
find_free_from(tbl, i) ==
    IF i >= sb.inode_table_n_inodes THEN 0
    ELSE LET r == edfs_read_inode(tbl, [inumber |-> i, inode |-> ZeroDiskInode])
         IN  IF r.ret > 0 /\ r.inode.inode.type = EDFS_INODE_TYPE_FREE
             THEN i
             ELSE find_free_from(tbl, i + 1)

\* a scan that starts at inumber 0
edfs_find_free_inode_from_zero(tbl) == find_free_from(tbl, 0)

\* edfs_find_free_inode
edfs_find_free_inode(tbl) == find_free_from(tbl, 1)

\* edfs_new_inode
edfs_new_inode(tbl, type) ==
    LET inumber == edfs_find_free_inode(tbl)
    IN  IF inumber = 0
        THEN [ret |-> -ENOSPC, inode |-> [inumber |-> 0, inode |-> ZeroDiskInode]]
        ELSE [ret |-> 0,
              inode |-> [inumber |-> inumber,
                         inode |-> [ZeroDiskInode EXCEPT !.type = type]]]

(***************************************************************************)
(* Bitmap (edfs-common.c).  bm maps a byte index to a uint8_t value.       *)
(***************************************************************************)
NBitmapBytes == (MaxBlocks + 7) \div 8

Pow2(n) == 2 ^ n

\* bit bit_off of a byte
BitOf(byte, bit_off) == (byte \div Pow2(bit_off)) % 2

\* an assignment of the bit alone, dropping the byte read
OrBit_assign(byte, bit_off) == Pow2(bit_off)

\* bitmap_data |= ((uint8_t)1) << bit_off
OrBit(byte, bit_off) ==
    IF BitOf(byte, bit_off) = 1 THEN byte ELSE byte + Pow2(bit_off)

\* bitmap_data &= ~(((uint8_t)1) << bit_off)
AndNotBit(byte, bit_off) ==
    IF BitOf(byte, bit_off) = 1 THEN byte - Pow2(bit_off) ELSE byte

\* edfs_bitmap_set
edfs_bitmap_set(bm, block) ==
    IF block >= sb.n_blocks
    THEN [ret |-> -EINVAL, bm |-> bm]
    ELSE LET byte_off == block \div 8
             bit_off  == block % 8
         IN  [ret |-> 0,
              bm |-> [bm EXCEPT ![byte_off] = OrBit(bm[byte_off], bit_off)]]

\* a clear that zeroes the whole byte holding the bit
edfs_bitmap_clear_byte(bm, block) ==
    IF block >= sb.n_blocks
    THEN [ret |-> -EINVAL, bm |-> bm]
    ELSE [ret |-> 0, bm |-> [bm EXCEPT ![block \div 8] = 0]]

\* edfs_bitmap_clear
edfs_bitmap_clear(bm, block) ==
    IF block >= sb.n_blocks
    THEN [ret |-> -EINVAL, bm |-> bm]
    ELSE LET byte_off == block \div 8
             bit_off  == block % 8
         IN  [ret |-> 0,
              bm |-> [bm EXCEPT ![byte_off] = AndNotBit(bm[byte_off], bit_off)]]

(***************************************************************************)
(* Block address translation and file data I/O (edfs-common.c).            *)
(* blks maps a block number to its BlockSize units.                        *)
(***************************************************************************)
\* the block number edfs_read_inode_data_blk / edfs_write_inode_data_blk
\* resolve for logical block id: [ret, block], ret < 0 on error
resolve_blk(blks, inode, id) ==
    IF id < EDFS_INODE_N_DIRECT_BLOCKS
    THEN [ret |-> 0, block |-> inode.inode.direct[id + 1]]
    ELSE LET indirect_block == inode.inode.indirect
         IN  IF indirect_block = EDFS_BLOCK_INVALID
             THEN [ret |-> -EIO, block |-> 0]
             ELSE IF indirect_block >= sb.n_blocks
             THEN \* pread past the image: a short count
                  [ret |-> -EIO, block |-> 0]
             ELSE IF (id - EDFS_INODE_N_DIRECT_BLOCKS) * SizeofBlockT
                         >= sb.block_size
             THEN \* indirect_blocks[] past the bytes pread filled
                  [ret |-> 0, block |-> uninit]
             ELSE [ret |-> 0,
                   block |-> blks[indirect_block]
                                 [id - EDFS_INODE_N_DIRECT_BLOCKS + 1]]

\* edfs_read_inode_data_blk: [ret, buf]
edfs_read_inode_data_blk(blks, inode, id) ==
    LET r == resolve_blk(blks, inode, id)
    IN  IF r.ret < 0 THEN [ret |-> r.ret, buf |-> <<>>]
        ELSE IF r.block = EDFS_BLOCK_INVALID THEN [ret |-> 0, buf |-> <<>>]
        ELSE IF r.block >= sb.n_blocks THEN [ret |-> -EIO, buf |-> <<>>]
        ELSE [ret |-> sb.block_size, buf |-> blks[r.block]]

\* edfs_write_inode_data_blk: [ret, blks]
edfs_write_inode_data_blk(blks, inode, id, buf) ==
    LET r == resolve_blk(blks, inode, id)
    IN  IF r.ret < 0 THEN [ret |-> r.ret, blks |-> blks]
        ELSE IF r.block = EDFS_BLOCK_INVALID THEN [ret |-> 0, blks |-> blks]
        ELSE IF r.block >= sb.n_blocks THEN [ret |-> -EIO, blks |-> blks]
        ELSE [ret |-> sb.block_size, blks |-> [blks EXCEPT ![r.block] = buf]]

\* memcpy(dst + at, src + from, n), offsets counted from 0
Memcpy(dst, at, src, from, n) ==
    [i \in 1..Len(dst) |->
        IF i - 1 >= at /\ i - 1 < at + n THEN src[from + (i - 1 - at) + 1]
        ELSE dst[i]]

\* the for loop of edfs_read_inode_data, from pos on
RECURSIVE read_data_loop(_, _, _, _, _, _)
read_data_loop(blks, inode, buf, size, off, pos) ==
    IF ~(pos < U32(off + size)) THEN [ret |-> size, buf |-> buf]
    ELSE LET BLK_SIZE == sb.block_size
             blk_id   == pos \div BLK_SIZE
             blk_off  == pos % BLK_SIZE
             blk_size == Min(U32(U32(off + size) - pos), BLK_SIZE - blk_off)
         IN  CHOOSE out \in
                 { IF r.ret <= 0 THEN [ret |-> r.ret, buf |-> buf]
                   ELSE CHOOSE o2 \in
                          { read_data_loop(blks, inode, nbuf, size, off,
                                           pos + blk_size) :
                            nbuf \in {Memcpy(buf, pos - off, r.buf, blk_off,
                                             blk_size)} } : TRUE :
                   r \in {edfs_read_inode_data_blk(blks, inode, blk_id)} } : TRUE

\* edfs_read_inode_data: [ret, buf]; buf comes in as the caller left it
edfs_read_inode_data(blks, inode, buf, size, off) ==
    read_data_loop(blks, inode, buf, size, off, off)

\* the for loop of edfs_write_inode_data, from pos on
RECURSIVE write_data_loop(_, _, _, _, _, _)
write_data_loop(blks, inode, buf, size, off, pos) ==
    IF ~(pos < U32(off + size)) THEN [ret |-> size, blks |-> blks]
    ELSE LET BLK_SIZE == sb.block_size
             blk_id   == pos \div BLK_SIZE
             blk_off  == pos % BLK_SIZE
             blk_size == Min(U32(U32(off + size) - pos), BLK_SIZE - blk_off)
         IN  CHOOSE out \in
                 { IF r.ret <= 0 THEN [ret |-> r.ret, blks |-> blks]
                   ELSE CHOOSE o2 \in
                          { IF w.ret <= 0 THEN [ret |-> w.ret, blks |-> w.blks]
                            ELSE write_data_loop(w.blks, inode, buf, size, off,
                                                 pos + blk_size) :
                            w \in {edfs_write_inode_data_blk(blks, inode, blk_id,
                                      Memcpy(r.buf, blk_off, buf, pos - off,
                                             blk_size))} } : TRUE :
                   r \in {edfs_read_inode_data_blk(blks, inode, blk_id)} } : TRUE

\* a write that reports the full count and stores nothing
edfs_write_inode_data_lost(blks, inode, buf, size, off) ==
    [ret |-> size, blks |-> blks]

\* edfs_write_inode_data: [ret, blks]
edfs_write_inode_data(blks, inode, buf, size, off) ==
    write_data_loop(blks, inode, buf, size, off, off)

(***************************************************************************)
(* File names.  A C string is the sequence of its characters.              *)
(***************************************************************************)
Letters ==
    {"a", "b", "c", "d", "e", "f", "g", "h", "i", "j", "k", "l", "m",
     "n", "o", "p", "q", "r", "s", "t", "u", "v", "w", "x", "y", "z",
     "A", "B", "C", "D", "E", "F", "G", "H", "I", "J", "K", "L", "M",
     "N", "O", "P", "Q", "R", "S", "T", "U", "V", "W", "X", "Y", "Z"}

Digits == {"0", "1", "2", "3", "4", "5", "6", "7", "8", "9"}

isalpha(c) == c \in Letters

isdigit(c) == c \in Digits

\* the longest name a directory entry holds: 59 characters of every class
NameMax ==
    [i \in 1..(EDFS_FILENAME_SIZE - 1) |->
        IF i = 1 THEN "." ELSE IF i = 2 THEN " " ELSE IF i = 3 THEN "9"
        ELSE "Z"]

\* one character more than a directory entry holds
NameTooLong == [i \in 1..EDFS_FILENAME_SIZE |-> "Z"]

\* the names a filename field of the images explored can hold; the field's
\* value is the name's index here, 0 for the empty string
NameTable == << <<"a">>, NameMax, <<"b">>, <<"c">>, <<"d">>, <<"e">> >>

\* strcpy(tmp.filename, name); a name outside the table gets the code
\* past it
FilenameOf(name) ==
    IF name = <<>> THEN 0
    ELSE IF \E c \in 1..Len(NameTable) : NameTable[c] = name
    THEN CHOOSE c \in 1..Len(NameTable) : NameTable[c] = name
    ELSE Len(NameTable) + 1

\* the string a filename field holds; "?" stands for a name outside the
\* table, which no caller passes
StringOf(code) ==
    IF code = 0 THEN <<>>
    ELSE IF code \in 1..Len(NameTable) THEN NameTable[code]
    ELSE <<"?">>

\* strcmp(name, tmp.filename) == 0
strcmp_eq(name, code) == name = StringOf(code)

\* a check that lets every character through
edfs_check_filename_anychar(name) ==
    IF Len(name) = 0 THEN -EINVAL
    ELSE IF Len(name) > 59 THEN -ENAMETOOLONG
    ELSE 0

\* edfs_check_filename
edfs_check_filename(name) ==
    IF Len(name) = 0 THEN -EINVAL
    ELSE IF Len(name) > 59 THEN -ENAMETOOLONG
    ELSE IF \E i \in 1..Len(name) :
                ~(isalpha(name[i]) \/ isdigit(name[i])
                  \/ name[i] = " " \/ name[i] = ".")
         THEN -EINVAL
         ELSE 0

(***************************************************************************)
(* Directory layer (edfuse.c).                                             *)
(***************************************************************************)
\* n_entries of the directory scans
NEntries ==
    (EDFS_INODE_N_DIRECT_BLOCKS * sb.block_size) \div SizeofDirEntry

\* edfs_read_inode_data(img, inode, &tmp, sizeof(tmp), off) of entry i:
\* [ret, inumber, filename]
read_entry(blks, inode, i) ==
    CHOOSE out \in
        { [ret |-> r.ret, inumber |-> r.buf[1], filename |-> r.buf[2]] :
          r \in {edfs_read_inode_data(blks, inode, Zeros(SizeofDirEntry),
                                      SizeofDirEntry, i * SizeofDirEntry)} } :
        TRUE

\* the scan of edfs_add_dir_entry from entry i on: [ret, entry_off]
RECURSIVE add_scan(_, _, _, _, _)
add_scan(blks, inode, name, i, entry_off) ==
    IF i >= NEntries THEN [ret |-> 0, entry_off |-> entry_off]
    ELSE LET tmp == read_entry(blks, inode, i)
             off == i * SizeofDirEntry
             first == IF entry_off = UINT32_MAX THEN off ELSE entry_off
         IN  IF tmp.ret < 0 THEN [ret |-> tmp.ret, entry_off |-> entry_off]
             ELSE IF tmp.ret = 0
             THEN add_scan(blks, inode, name, i + 1, first)
             ELSE IF tmp.inumber = EDFS_BLOCK_INVALID
             THEN add_scan(blks, inode, name, i + 1, first)
             ELSE IF strcmp_eq(name, tmp.filename)
             THEN [ret |-> -EEXIST, entry_off |-> entry_off]
             ELSE add_scan(blks, inode, name, i + 1, entry_off)

\* an insert that writes at the first reusable slot without scanning on
edfs_add_dir_entry_first_fit(blks, inode, name, inumber) ==
    LET free == {i \in 0..(NEntries - 1) :
                    LET tmp == read_entry(blks, inode, i)
                    IN  tmp.ret = 0 \/ tmp.inumber = EDFS_BLOCK_INVALID}
        slot == CHOOSE i \in free : \A j \in free : i <= j
    IN  IF edfs_check_filename(name) # 0
        THEN [ret |-> edfs_check_filename(name), blks |-> blks]
        ELSE IF free = {} THEN [ret |-> -ENOMSG, blks |-> blks]
        ELSE LET w == edfs_write_inode_data(blks, inode,
                          <<inumber, FilenameOf(name)>>, SizeofDirEntry,
                          slot * SizeofDirEntry)
             IN  IF w.ret < 0 THEN [ret |-> w.ret, blks |-> w.blks]
                 ELSE IF w.ret # SizeofDirEntry THEN [ret |-> -EIO, blks |-> w.blks]
                 ELSE [ret |-> 0, blks |-> w.blks]

\* edfs_add_dir_entry: [ret, blks]
edfs_add_dir_entry(blks, inode, name, inumber) ==
    LET chk == edfs_check_filename(name)
    IN  IF chk # 0 THEN [ret |-> chk, blks |-> blks]
        ELSE LET s == add_scan(blks, inode, name, 0, UINT32_MAX)
             IN  IF s.ret # 0 THEN [ret |-> s.ret, blks |-> blks]
                 ELSE IF s.entry_off = UINT32_MAX
                 THEN [ret |-> -ENOMSG, blks |-> blks]
                 ELSE LET w == edfs_write_inode_data(blks, inode,
                                   <<inumber, FilenameOf(name)>>,
                                   SizeofDirEntry, s.entry_off)
                      IN  IF w.ret < 0 THEN [ret |-> w.ret, blks |-> w.blks]
                          ELSE IF w.ret # SizeofDirEntry
                          THEN [ret |-> -EIO, blks |-> w.blks]
                          ELSE [ret |-> 0, blks |-> w.blks]

\* the scan of edfs_remove_dir_entry from entry i on: [ret, blks]
RECURSIVE remove_scan(_, _, _, _)
remove_scan(blks, inode, name, i) ==
    IF i >= NEntries THEN [ret |-> -ENOENT, blks |-> blks]
    ELSE LET tmp == read_entry(blks, inode, i)
         IN  IF tmp.ret < 0 THEN [ret |-> tmp.ret, blks |-> blks]
             ELSE IF tmp.ret = 0 THEN remove_scan(blks, inode, name, i + 1)
             ELSE IF tmp.inumber = EDFS_BLOCK_INVALID
             THEN remove_scan(blks, inode, name, i + 1)
             ELSE IF strcmp_eq(name, tmp.filename)
             THEN LET w == edfs_write_inode_data(blks, inode,
                               Zeros(SizeofDirEntry), SizeofDirEntry,
                               i * SizeofDirEntry)
                  IN  IF w.ret < 0 THEN [ret |-> w.ret, blks |-> w.blks]
                      ELSE IF w.ret = 0 THEN [ret |-> -EIO, blks |-> w.blks]
                      ELSE [ret |-> 0, blks |-> w.blks]
             ELSE remove_scan(blks, inode, name, i + 1)

\* a remove that reports success without writing the cleared entry
edfs_remove_dir_entry_nowrite(blks, inode, name) ==
    [ret |-> remove_scan(blks, inode, name, 0).ret, blks |-> blks]

\* edfs_remove_dir_entry: [ret, blks]
edfs_remove_dir_entry(blks, inode, name) == remove_scan(blks, inode, name, 0)

\* the loop of edfs_get_dir_entries from entry i on: [ret, entries]
RECURSIVE dir_entries_from(_, _, _, _)
dir_entries_from(blks, inode, i, entries) ==
    IF i >= NEntries THEN [ret |-> Len(entries), entries |-> entries]
    ELSE LET tmp == read_entry(blks, inode, i)
         IN  IF tmp.ret < 0 THEN [ret |-> tmp.ret, entries |-> entries]
             ELSE IF tmp.ret = 0
             THEN dir_entries_from(blks, inode, i + 1, entries)
             ELSE IF tmp.inumber = EDFS_BLOCK_INVALID
             THEN dir_entries_from(blks, inode, i + 1, entries)
             ELSE dir_entries_from(blks, inode, i + 1,
                      Append(entries, [inumber |-> tmp.inumber,
                                       filename |-> tmp.filename]))

\* a listing that also returns the entries whose inumber is the invalid one
edfs_get_dir_entries_all(blks, inode) ==
    LET S == {i \in 0..(NEntries - 1) : read_entry(blks, inode, i).ret > 0}
        F[i \in 0..NEntries] ==
            IF i = 0 THEN <<>>
            ELSE IF (i - 1) \in S
            THEN Append(F[i - 1],
                        [inumber |-> read_entry(blks, inode, i - 1).inumber,
                         filename |-> read_entry(blks, inode, i - 1).filename])
            ELSE F[i - 1]
    IN  [ret |-> Len(F[NEntries]), entries |-> F[NEntries]]

\* edfs_get_dir_entries: [ret, entries]
edfs_get_dir_entries(blks, inode) == dir_entries_from(blks, inode, 0, <<>>)

(***************************************************************************)
(* Path resolver (edfuse.c).  Positions in a path count from 1; position   *)
(* Len(path) + 1 is the terminating NUL.                                   *)
(***************************************************************************)
\* strchr(path + from, '/'): the position found, 0 for NULL
StrChrSlash(path, from) ==
    IF \E i \in from..Len(path) : path[i] = "/"
    THEN CHOOSE i \in from..Len(path) :
            path[i] = "/" /\ \A j \in from..(i - 1) : path[j] # "/"
    ELSE 0

\* strrchr(path, '/'): the position found, 0 for NULL
StrRChrSlash(path) ==
    IF \E i \in 1..Len(path) : path[i] = "/"
    THEN CHOOSE i \in 1..Len(path) :
            path[i] = "/" /\ \A j \in (i + 1)..Len(path) : path[j] # "/"
    ELSE 0

\* while (*path == '/') path++
RECURSIVE SkipSlashes(_, _)
SkipSlashes(path, p) ==
    IF p <= Len(path) /\ path[p] = "/" THEN SkipSlashes(path, p + 1) ELSE p

\* the directory scan of edfs_find_inode from entry i on:
\* [ret, found, inumber]
RECURSIVE find_scan(_, _, _, _)
find_scan(blks, current_inode, name, i) ==
    IF i >= NEntries THEN [ret |-> 0, found |-> FALSE, inumber |-> 0]
    ELSE LET tmp == read_entry(blks, current_inode, i)
         IN  IF tmp.ret < 0
             THEN [ret |-> tmp.ret, found |-> FALSE, inumber |-> 0]
             ELSE IF tmp.ret = 0
             THEN find_scan(blks, current_inode, name, i + 1)
             ELSE IF tmp.inumber = 0
             THEN find_scan(blks, current_inode, name, i + 1)
             ELSE IF strcmp_eq(name, tmp.filename)
             THEN [ret |-> 0, found |-> TRUE, inumber |-> tmp.inumber]
             ELSE find_scan(blks, current_inode, name, i + 1)

\* a scan that matches a name whatever the entry's inumber
RECURSIVE find_scan_any_inumber(_, _, _, _)
find_scan_any_inumber(blks, current_inode, name, i) ==
    IF i >= NEntries THEN [ret |-> 0, found |-> FALSE, inumber |-> 0]
    ELSE LET tmp == read_entry(blks, current_inode, i)
         IN  IF tmp.ret < 0
             THEN [ret |-> tmp.ret, found |-> FALSE, inumber |-> 0]
             ELSE IF tmp.ret = 0
             THEN find_scan_any_inumber(blks, current_inode, name, i + 1)
             ELSE IF strcmp_eq(name, tmp.filename)
             THEN [ret |-> 0, found |-> TRUE, inumber |-> tmp.inumber]
             ELSE find_scan_any_inumber(blks, current_inode, name, i + 1)

\* a lookup that matches a name whatever the entry's inumber
dir_lookup_any_inumber(blks, current_inode, name) ==
    find_scan_any_inumber(blks, current_inode, name, 0)

\* the scan of edfs_find_inode over the entries of current_inode
dir_lookup(blks, current_inode, name) == find_scan(blks, current_inode, name, 0)

\* the while loop of edfs_find_inode with path at position p: [ok, inode]
RECURSIVE find_walk(_, _, _, _, _)
find_walk(blks, tbl, path, p, current_inode) ==
    LET s == StrChrSlash(path, p)
    IN  IF s = 0 THEN [ok |-> TRUE, inode |-> current_inode]
        ELSE
          LET q == SkipSlashes(path, s)
              e == StrChrSlash(path, q)
          IN  IF e = 0 /\ q > Len(path)
              THEN \* We are done: return current entry.
                   [ok |-> TRUE, inode |-> current_inode]
              ELSE
                LET end  == IF e = 0 THEN Len(path) + 1 ELSE e
                    len  == end - q
                    name == SubSeq(path, q, end - 1)
                IN  IF len >= EDFS_FILENAME_SIZE
                    THEN [ok |-> FALSE, inode |-> current_inode]
                    ELSE IF name = <<>>
                    THEN find_walk(blks, tbl, path, end, current_inode)
                    ELSE
                      CHOOSE out \in
                        { IF l.ret < 0 \/ ~l.found
                          THEN [ok |-> FALSE, inode |-> current_inode]
                          ELSE CHOOSE o2 \in
                                 { find_walk(blks, tbl, path, end, next) :
                                   next \in {edfs_read_inode(tbl,
                                       [current_inode EXCEPT
                                           !.inumber = l.inumber]).inode} } :
                                 TRUE :
                          l \in {dir_lookup(blks, current_inode, name)} } : TRUE

\* a resolver that starts at inumber 0 instead of the root
edfs_find_inode_from_zero(blks, tbl, path) ==
    IF Len(path) = 0 \/ path[1] # "/"
    THEN [ok |-> FALSE, inode |-> [inumber |-> 0, inode |-> ZeroDiskInode]]
    ELSE find_walk(blks, tbl, path, 1,
                   edfs_read_inode(tbl,
                       [inumber |-> 0, inode |-> ZeroDiskInode]).inode)

\* edfs_find_inode: [ok, inode]
edfs_find_inode(blks, tbl, path) ==
    IF Len(path) = 0 \/ path[1] # "/"
    THEN [ok |-> FALSE, inode |-> [inumber |-> 0, inode |-> ZeroDiskInode]]
    ELSE find_walk(blks, tbl, path, 1,
                   edfs_read_root_inode(tbl,
                       [inumber |-> 0, inode |-> ZeroDiskInode]).inode)

\* drop_trailing_slashes
RECURSIVE drop_trailing_slashes(_)
drop_trailing_slashes(path) ==
    IF Len(path) > 0 /\ path[Len(path)] = "/"
    THEN drop_trailing_slashes(SubSeq(path, 1, Len(path) - 1))
    ELSE path

\* edfs_get_parent_inode: [res, inode]
edfs_get_parent_inode(blks, tbl, path) ==
    LET none == [inumber |-> 0, inode |-> ZeroDiskInode]
    IN  CHOOSE out \in
          { IF Len(path_copy) = 0 THEN [res |-> -EINVAL, inode |-> none]
            ELSE CHOOSE o2 \in
              { IF sep = 0 THEN [res |-> -EINVAL, inode |-> none]
                ELSE IF sep = 1
                THEN [res |-> 0, inode |-> edfs_read_root_inode(tbl, none).inode]
                ELSE CHOOSE o3 \in
                  { IF ~f.ok THEN [res |-> -ENOENT, inode |-> none]
                    ELSE [res |-> 0, inode |-> f.inode] :
                    f \in {edfs_find_inode(blks, tbl,
                                           SubSeq(path_copy, 1, sep - 1))} } :
                  TRUE :
                sep \in {StrRChrSlash(path_copy)} } : TRUE :
            path_copy \in {drop_trailing_slashes(path)} } : TRUE

\* edfs_get_basename: [null, name]
edfs_get_basename(path) ==
    CHOOSE out \in
      { IF Len(path_copy) = 0 THEN [null |-> TRUE, name |-> <<>>]
        ELSE CHOOSE o2 \in
          { IF sep = 0 THEN [null |-> TRUE, name |-> <<>>]
            ELSE [null |-> FALSE,
                  name |-> SubSeq(path_copy, sep + 1, Len(path_copy))] :
            sep \in {StrRChrSlash(path_copy)} } : TRUE :
        path_copy \in {drop_trailing_slashes(path)} } : TRUE

(***************************************************************************)
(* FUSE operations (edfuse.c): [ret, tbl, blks, bm].                       *)
(***************************************************************************)
\* the part of edfuse_mkdir behind the filename check
mkdir_create(bm, tbl, blks, name, parent) ==
    LET same == [ret |-> 0, tbl |-> tbl, blks |-> blks, bm |-> bm]
    IN  IF parent.res # 0 THEN [same EXCEPT !.ret = parent.res]
        ELSE CHOOSE out \in
          { IF new.ret # 0 THEN [same EXCEPT !.ret = new.ret]
            ELSE CHOOSE o2 \in
              { IF w.ret < 0 THEN [same EXCEPT !.ret = w.ret]
                ELSE CHOOSE o3 \in
                  { [ret |-> a.ret, tbl |-> w.tbl, blks |-> a.blks, bm |-> bm] :
                    a \in {edfs_add_dir_entry(blks, parent.inode, name,
                                              new.inode.inumber)} } : TRUE :
                w \in {edfs_write_inode(tbl, new.inode)} } : TRUE :
            new \in {edfs_new_inode(tbl, EDFS_INODE_TYPE_DIRECTORY)} } : TRUE

\* edfuse_mkdir
edfuse_mkdir(bm, tbl, blks, path) ==
    LET same == [ret |-> 0, tbl |-> tbl, blks |-> blks, bm |-> bm]
    IN  CHOOSE out \in
          { IF base.null THEN [same EXCEPT !.ret = -ENOMSG]
            ELSE CHOOSE o2 \in
              { IF chk # 0 THEN [same EXCEPT !.ret = chk]
                ELSE CHOOSE o3 \in
                  { mkdir_create(bm, tbl, blks, base.name, parent) :
                    parent \in {edfs_get_parent_inode(blks, tbl, path)} } :
                  TRUE :
                chk \in {edfs_check_filename(base.name)} } : TRUE :
            base \in {edfs_get_basename(path)} } : TRUE

\* the loop of edfuse_rmdir over inode.inode.direct[i..]
RECURSIVE release_direct(_, _, _)
release_direct(bm, inode, i) ==
    IF i >= EDFS_INODE_N_DIRECT_BLOCKS THEN bm
    ELSE LET block == inode.inode.direct[i + 1]
         IN  IF block = EDFS_BLOCK_INVALID
             THEN release_direct(bm, inode, i + 1)
             ELSE release_direct(edfs_bitmap_clear(bm, block).bm, inode, i + 1)

\* the part of edfuse_rmdir behind the emptiness check
rmdir_unlink(bm, tbl, blks, name, f, parent) ==
    LET same == [ret |-> 0, tbl |-> tbl, blks |-> blks, bm |-> bm]
    IN  IF parent.res # 0 THEN [same EXCEPT !.ret = -EIO]
        ELSE CHOOSE out \in
          { IF r.ret # 0
            THEN [ret |-> -EIO, tbl |-> tbl, blks |-> r.blks, bm |-> bm]
            ELSE CHOOSE o2 \in
              { [ret |-> IF c.ret <= 0 THEN -EIO ELSE 0, tbl |-> c.tbl,
                 blks |-> r.blks, bm |-> release_direct(bm, f.inode, 0)] :
                c \in {edfs_clear_inode(tbl, f.inode)} } : TRUE :
            r \in {edfs_remove_dir_entry(blks, parent.inode, name)} } : TRUE

\* the part of edfuse_rmdir behind the filename check
rmdir_found(bm, tbl, blks, path, name, f) ==
    LET same == [ret |-> 0, tbl |-> tbl, blks |-> blks, bm |-> bm]
    IN  IF ~f.ok THEN [same EXCEPT !.ret = -ENOENT]
        ELSE CHOOSE out \in
          { IF l.ret < 0 THEN [same EXCEPT !.ret = l.ret]
            ELSE IF l.ret # 0 THEN [same EXCEPT !.ret = -ENOTEMPTY]
            ELSE CHOOSE o2 \in
              { rmdir_unlink(bm, tbl, blks, name, f, parent) :
                parent \in {edfs_get_parent_inode(blks, tbl, path)} } : TRUE :
            l \in {edfs_get_dir_entries(blks, f.inode)} } : TRUE

\* edfuse_rmdir
edfuse_rmdir(bm, tbl, blks, path) ==
    LET same == [ret |-> 0, tbl |-> tbl, blks |-> blks, bm |-> bm]
    IN  CHOOSE out \in
          { IF base.null THEN [same EXCEPT !.ret = -ENOMSG]
            ELSE CHOOSE o2 \in
              { IF chk # 0 THEN [same EXCEPT !.ret = chk]
                ELSE CHOOSE o3 \in
                  { rmdir_found(bm, tbl, blks, path, base.name, f) :
                    f \in {edfs_find_inode(blks, tbl, path)} } : TRUE :
                chk \in {edfs_check_filename(base.name)} } : TRUE :
            base \in {edfs_get_basename(path)} } : TRUE

(***************************************************************************)
(* Images.                                                                 *)
(***************************************************************************)
Inumbers == 0..(MaxInodes - 1)

BlockNumbers == 1..(MaxBlocks - 1)

ZeroBlock == Zeros(BlockSize)

\* the in-memory edfs_inode_t read for inumber i
InodeOf(tbl, i) == [inumber |-> i, inode |-> tbl[i]]

DirInode(direct) ==
    [type |-> EDFS_INODE_TYPE_DIRECTORY, size |-> 0,
     direct |-> direct, indirect |-> EDFS_BLOCK_INVALID]

FileInode(direct, indirect) ==
    [type |-> EDFS_INODE_TYPE_FILE, size |-> 0,
     direct |-> direct, indirect |-> indirect]

\* the blocks a record's direct and indirect slots name
BlocksOf(blks, rec) ==
    {rec.direct[i] : i \in 1..EDFS_INODE_N_DIRECT_BLOCKS}
    \cup {rec.indirect}
    \cup (IF rec.indirect \in BlockNumbers
          THEN {blks[rec.indirect][i] : i \in 1..BlockSize}
          ELSE {})

\* the blocks some non-free inode of the table names
Referenced(tbl, blks) ==
    UNION {BlocksOf(blks, tbl[i]) :
              i \in {j \in Inumbers : tbl[j].type # EDFS_INODE_TYPE_FREE}}
    \ {EDFS_BLOCK_INVALID}

RECURSIVE SumPow2(_)
SumPow2(S) ==
    IF S = {} THEN 0
    ELSE LET x == CHOOSE y \in S : TRUE IN Pow2(x) + SumPow2(S \ {x})

\* the bitmap in which exactly the blocks of S are marked used
BitmapOf(S) ==
    [byte \in 0..(NBitmapBytes - 1) |->
        SumPow2({b % 8 : b \in {c \in S : c \div 8 = byte}})]

\* the entries a block of the initial root directory holds:
\* nothing, a sub-directory "a", a cleared slot that kept its name, an
\* entry behind a reusable slot
RootPresets ==
    { <<0, 0, 0, 0>>, <<2, 1, 0, 0>>, <<0, 1, 0, 0>>, <<0, 0, 2, 1>> }

\* the direct slots of the initial root directory: both blocks allocated,
\* a hole behind the first block, a hole before the second
RootDirects == { <<1, 2>>, <<1, 0>>, <<0, 2>> }

\* the image with the root directory laid out as direct, its first
\* allocated block holding preset, and inode 2 the directory the preset names
ImageOf(direct, preset) ==
    LET first == IF direct[1] # 0 THEN direct[1] ELSE direct[2]
        sub   == \E i \in {1, 3} : preset[i] = 2
        tbl   == [i \in Inumbers |->
                    IF i = 1 THEN DirInode(direct)
                    ELSE IF i = 2 /\ sub THEN DirInode(<<3, 0>>)
                    ELSE ZeroDiskInode]
        blks  == [b \in BlockNumbers |->
                    IF b = first THEN preset ELSE ZeroBlock]
    IN  [tbl |-> tbl, blks |-> blks, bm |-> BitmapOf(Referenced(tbl, blks))]

NoCall == [op |-> "none", arg |-> <<>>, ret |-> 0, out |-> <<>>]

\* the callers of the image
Callers == {1, 2}

\* the other caller
Other(p) == CHOOSE q \in Callers : q # p

\* a caller that has made no call: pc is its position, op and arg the call
\* it is in, inumber and data the locals of that call, ret its result;
\* concurrent notes that the other caller was inside a call when this one
\* began its own
IdleCaller ==
    [pc |-> "idle", op |-> "none", arg |-> 0, inumber |-> 0, data |-> 0,
     ret |-> 0, concurrent |-> FALSE]

NoProc == [p \in Callers |-> IdleCaller]

(***************************************************************************)
(* The calls.  last records the call just made: [op, arg, ret, out].       *)
(***************************************************************************)
\* the inumbers the model's callers hand to edfs_add_dir_entry
EntryInumbers == {0, MaxInodes - 1}

\* the names the model's callers hand to the directory layer
CallNames ==
    { <<>>, <<"a">>, NameMax, NameTooLong, <<"a", "/">>, <<"a", "$">> }

Slash == <<"/">>

\* the paths the model's callers hand to the FUSE operations
CallPaths ==
    { <<>>, <<"a">>, Slash, Slash \o Slash,
      Slash \o <<"a">>, Slash \o <<"a">> \o Slash,
      Slash \o Slash \o <<"a">> \o Slash \o Slash \o <<"a">>,
      Slash \o <<"a">> \o Slash \o NameMax,
      Slash \o NameMax, Slash \o NameTooLong,
      Slash \o <<"a", "$">> }

\* edfs_add_dir_entry on the directory with inumber d
AddDirEntry(d, name, k) ==
    \E r \in {edfs_add_dir_entry(blocks, InodeOf(inodes, d), name, k)} :
        /\ blocks' = r.blks
        /\ last' = [op |-> "add", arg |-> <<d, name, k>>, ret |-> r.ret,
                    out |-> <<>>]
        /\ UNCHANGED <<sb, bitmap, inodes, uninit, proc>>

\* edfs_remove_dir_entry on the directory with inumber d
RemoveDirEntry(d, name) ==
    \E r \in {edfs_remove_dir_entry(blocks, InodeOf(inodes, d), name)} :
        /\ blocks' = r.blks
        /\ last' = [op |-> "remove", arg |-> <<d, name>>, ret |-> r.ret,
                    out |-> <<>>]
        /\ UNCHANGED <<sb, bitmap, inodes, uninit, proc>>

\* edfs_find_inode
FindInode(path) ==
    \E r \in {edfs_find_inode(blocks, inodes, path)} :
        /\ last' = [op |-> "find", arg |-> <<path>>,
                    ret |-> IF r.ok THEN 1 ELSE 0, out |-> r.inode]
        /\ UNCHANGED <<sb, bitmap, inodes, blocks, uninit, proc>>

\* edfuse_mkdir
Mkdir(path) ==
    \E r \in {edfuse_mkdir(bitmap, inodes, blocks, path)} :
        /\ bitmap' = r.bm
        /\ inodes' = r.tbl
        /\ blocks' = r.blks
        /\ last' = [op |-> "mkdir", arg |-> <<path>>, ret |-> r.ret,
                    out |-> <<>>]
        /\ UNCHANGED <<sb, uninit, proc>>

\* edfuse_rmdir
Rmdir(path) ==
    \E r \in {edfuse_rmdir(bitmap, inodes, blocks, path)} :
        /\ bitmap' = r.bm
        /\ inodes' = r.tbl
        /\ blocks' = r.blks
        /\ last' = [op |-> "rmdir", arg |-> <<path>>, ret |-> r.ret,
                    out |-> <<>>]
        /\ UNCHANGED <<sb, uninit, proc>>

(***************************************************************************)
(* Spec: the FUSE operations and the path resolver on one image.           *)
(***************************************************************************)
Init ==
    /\ sb = SuperBlock
    /\ uninit = 0
    /\ \E direct \in RootDirects, preset \in RootPresets :
          LET img == ImageOf(direct, preset)
          IN  /\ inodes = img.tbl
              /\ blocks = img.blks
              /\ bitmap = img.bm
    /\ last = NoCall
    /\ proc = NoProc

Next ==
    \/ \E path \in CallPaths : FindInode(path)
    \/ \E path \in CallPaths : Mkdir(path)
    \/ \E path \in CallPaths : Rmdir(path)

Spec == Init /\ [][Next]_vars

(***************************************************************************)
(* SpecDir: the directory layer on the root directory, beside mkdir.       *)
(***************************************************************************)
NextDir ==
    \/ \E name \in CallNames, k \in EntryInumbers :
          AddDirEntry(sb.root_inumber, name, k)
    \/ \E name \in CallNames : RemoveDirEntry(sb.root_inumber, name)
    \/ \E path \in CallPaths : Mkdir(path)

SpecDir == Init /\ [][NextDir]_vars

(***************************************************************************)
(* SpecInode: the inode table routines on one image.                       *)
(***************************************************************************)
\* the records the model's callers hand to edfs_write_inode
InodeRecords ==
    { ZeroDiskInode, DirInode(<<1, 2>>),
      [type |-> EDFS_INODE_TYPE_FILE, size |-> 7, direct |-> <<3, 0>>,
       indirect |-> 5] }

\* the inumbers the model's callers hand to the inode routines; the last
\* one lies past the table
CallInumbers == 0..MaxInodes

\* edfs_write_inode
WriteInode(i, rec) ==
    \E r \in {edfs_write_inode(inodes, [inumber |-> i, inode |-> rec])} :
        /\ inodes' = r.tbl
        /\ last' = [op |-> "write_inode", arg |-> <<i, rec>>, ret |-> r.ret,
                    out |-> <<>>]
        /\ UNCHANGED <<sb, bitmap, blocks, uninit, proc>>

\* edfs_read_inode into a zeroed edfs_inode_t
ReadInode(i) ==
    \E r \in {edfs_read_inode(inodes, [inumber |-> i, inode |-> ZeroDiskInode])} :
        /\ last' = [op |-> "read_inode", arg |-> <<i>>, ret |-> r.ret,
                    out |-> r.inode]
        /\ UNCHANGED <<sb, bitmap, inodes, blocks, uninit, proc>>

\* edfs_clear_inode
ClearInode(i) ==
    \E r \in {edfs_clear_inode(inodes, [inumber |-> i, inode |-> ZeroDiskInode])} :
        /\ inodes' = r.tbl
        /\ last' = [op |-> "clear_inode", arg |-> <<i>>, ret |-> r.ret,
                    out |-> <<>>]
        /\ UNCHANGED <<sb, bitmap, blocks, uninit, proc>>

\* edfs_new_inode: the record is built in memory only
NewInode(type) ==
    \E r \in {edfs_new_inode(inodes, type)} :
        /\ last' = [op |-> "new_inode", arg |-> <<type>>, ret |-> r.ret,
                    out |-> r.inode]
        /\ UNCHANGED <<sb, bitmap, inodes, blocks, uninit, proc>>

\* the image with an empty root directory
InitEmptyRoot ==
    /\ sb = SuperBlock
    /\ uninit = 0
    /\ LET img == ImageOf(<<1, 2>>, ZeroBlock)
       IN  /\ inodes = img.tbl
           /\ blocks = img.blks
           /\ bitmap = img.bm
    /\ last = NoCall
    /\ proc = NoProc

NextInode ==
    \/ \E i \in CallInumbers, rec \in InodeRecords : WriteInode(i, rec)
    \/ \E i \in CallInumbers : ReadInode(i)
    \/ \E i \in CallInumbers : ClearInode(i)
    \/ \E type \in {EDFS_INODE_TYPE_FILE, EDFS_INODE_TYPE_DIRECTORY} :
          NewInode(type)

SpecInode == InitEmptyRoot /\ [][NextInode]_vars

(***************************************************************************)
(* SpecBitmap: edfs_bitmap_set and edfs_bitmap_clear on one image.  out    *)
(* records the bitmap before the call and the call made before it.         *)
(***************************************************************************)
\* the block numbers the model's callers hand to the bitmap routines: both
\* ends of the first byte, the last block, the first one past the image
CallBlocks == {0, 1, 7, MaxBlocks - 1, MaxBlocks}

\* the call before the one being made, with the bitmap it started from
PrevCall ==
    [op |-> last.op, arg |-> last.arg, ret |-> last.ret,
     before |-> IF last.op = "none" THEN bitmap ELSE last.out.before]

\* edfs_bitmap_set
BitmapSet(block) ==
    \E r \in {edfs_bitmap_set(bitmap, block)} :
        /\ bitmap' = r.bm
        /\ last' = [op |-> "bitmap_set", arg |-> <<block>>, ret |-> r.ret,
                    out |-> [before |-> bitmap, prev |-> PrevCall]]
        /\ UNCHANGED <<sb, inodes, blocks, uninit, proc>>

\* edfs_bitmap_clear
BitmapClear(block) ==
    \E r \in {edfs_bitmap_clear(bitmap, block)} :
        /\ bitmap' = r.bm
        /\ last' = [op |-> "bitmap_clear", arg |-> <<block>>, ret |-> r.ret,
                    out |-> [before |-> bitmap, prev |-> PrevCall]]
        /\ UNCHANGED <<sb, inodes, blocks, uninit, proc>>

NextBitmap ==
    \/ \E block \in CallBlocks : BitmapSet(block)
    \/ \E block \in CallBlocks : BitmapClear(block)

SpecBitmap == InitEmptyRoot /\ [][NextBitmap]_vars

(***************************************************************************)
(* SpecData: file data I/O on the file with inumber FileInumber.           *)
(***************************************************************************)
\* the inumber of the file: the last but one of the table
FileInumber == MaxInodes - 2

\* a freshly allocated file; a file whose direct blocks and first three
\* indirect entries are allocated; a file with a hole behind its first block
FileLayouts ==
    { [direct |-> <<0, 0>>, indirect |-> 0, entries |-> ZeroBlock],
      [direct |-> <<3, 4>>, indirect |-> 5, entries |-> <<6, 7, 8, 0>>],
      [direct |-> <<3, 0>>, indirect |-> 0, entries |-> ZeroBlock] }

\* the image with an empty root directory and the file laid out as lay
FileImageOf(lay) ==
    LET tbl  == [i \in Inumbers |->
                    IF i = 1 THEN DirInode(<<1, 2>>)
                    ELSE IF i = FileInumber
                    THEN FileInode(lay.direct, lay.indirect)
                    ELSE ZeroDiskInode]
        blks == [b \in BlockNumbers |->
                    IF b = lay.indirect THEN lay.entries ELSE ZeroBlock]
    IN  [tbl |-> tbl, blks |-> blks, bm |-> BitmapOf(Referenced(tbl, blks))]

\* n bytes of data, each different from the zero a fresh block holds
DataOf(n) == [i \in 1..n |-> i]

\* the (buffer, offset) pairs the model's callers write and read: the start
\* of the file, mid-block, across a block boundary, the first indirect
\* block, 3 * block_size + 7 bytes from the start, a logical block past
\* the entries the indirect block holds, and a range whose end off + size
\* does not fit a uint32_t
CallData ==
    { <<DataOf(1), 0>>, <<DataOf(2), 1>>, <<DataOf(2), BlockSize - 1>>,
      <<DataOf(1), EDFS_INODE_N_DIRECT_BLOCKS * BlockSize>>,
      <<DataOf(3 * BlockSize + 7), 0>>,
      <<DataOf(1),
        (EDFS_INODE_N_DIRECT_BLOCKS + BlockSize \div SizeofBlockT) * BlockSize>>,
      <<DataOf(BlockSize), UINT32_MAX - 1>> }

\* edfs_write_inode_data on the file; out is the file's size before the call
WriteInodeData(buf, off) ==
    \E r \in {edfs_write_inode_data(blocks, InodeOf(inodes, FileInumber), buf,
                                    Len(buf), off)} :
        /\ blocks' = r.blks
        /\ last' = [op |-> "write_data", arg |-> <<buf, off>>, ret |-> r.ret,
                    out |-> inodes[FileInumber].size]
        /\ UNCHANGED <<sb, bitmap, inodes, uninit, proc>>

\* edfs_read_inode_data on the file into a zeroed buffer
ReadInodeData(size, off) ==
    \E r \in {edfs_read_inode_data(blocks, InodeOf(inodes, FileInumber),
                                   Zeros(size), size, off)} :
        /\ last' = [op |-> "read_data", arg |-> <<size, off>>, ret |-> r.ret,
                    out |-> r.buf]
        /\ UNCHANGED <<sb, bitmap, inodes, blocks, uninit, proc>>

\* edfuse_write
edfuse_write(path, buf, size, offset) == -ENOSYS

\* edfuse_write
FuseWrite(path, buf, off) ==
    /\ last' = [op |-> "fuse_write", arg |-> <<path, buf, off>>,
                ret |-> edfuse_write(path, buf, Len(buf), off), out |-> <<>>]
    /\ UNCHANGED <<sb, bitmap, inodes, blocks, uninit, proc>>

InitData ==
    /\ sb = SuperBlock
    /\ uninit \in 0..MaxBlocks
    /\ \E lay \in FileLayouts :
          LET img == FileImageOf(lay)
          IN  /\ inodes = img.tbl
              /\ blocks = img.blks
              /\ bitmap = img.bm
    /\ last = NoCall
    /\ proc = NoProc

NextData ==
    \/ \E c \in CallData : WriteInodeData(c[1], c[2])
    \/ \E c \in CallData : ReadInodeData(Len(c[1]), c[2])
    \/ \E c \in CallData : FuseWrite(<<"/", "f">>, c[1], c[2])

SpecData == InitData /\ [][NextData]_vars

(***************************************************************************)
(* The directory as the image stores it, read off the blocks without the   *)
(* I/O routines.                                                           *)
(***************************************************************************)
\* slot i of the directory with on-disk record rec
SlotOf(blks, rec, i) ==
    LET b  == rec.direct[(i * SizeofDirEntry) \div BlockSize + 1]
        at == (i * SizeofDirEntry) % BlockSize
    IN  IF b = EDFS_BLOCK_INVALID
        THEN [stored |-> FALSE, inumber |-> 0, filename |-> 0]
        ELSE [stored |-> TRUE, inumber |-> blks[b][at + 1],
              filename |-> blks[b][at + 2]]

\* the slots of rec that hold a present entry named n
PresentSlots(blks, rec, n) ==
    {i \in 0..(NEntries - 1) :
        /\ SlotOf(blks, rec, i).stored
        /\ SlotOf(blks, rec, i).inumber # 0
        /\ StringOf(SlotOf(blks, rec, i).filename) = n}

Present(blks, rec, n) == PresentSlots(blks, rec, n) # {}

\* the inumber of the first present entry named n
FirstPresent(blks, rec, n) ==
    LET S == PresentSlots(blks, rec, n)
    IN  SlotOf(blks, rec, CHOOSE i \in S : \A j \in S : i <= j).inumber

\* the non-empty components of a path
RECURSIVE Components(_)
Components(path) ==
    IF path = <<>> THEN <<>>
    ELSE IF Head(path) = "/" THEN Components(Tail(path))
    ELSE LET stops == {i \in 1..Len(path) : path[i] = "/"} \cup {Len(path) + 1}
             n     == CHOOSE i \in stops : \A j \in stops : i <= j
         IN  <<SubSeq(path, 1, n - 1)>> \o Components(SubSeq(path, n, Len(path)))

\* every component names a present entry of the directory reached so far,
\* starting at inumber i
RECURSIVE ChainPresent(_, _, _, _)
ChainPresent(blks, tbl, i, comps) ==
    \/ comps = <<>>
    \/ /\ i \in DOMAIN tbl
       /\ Present(blks, tbl[i], Head(comps))
       /\ ChainPresent(blks, tbl, FirstPresent(blks, tbl[i], Head(comps)),
                       Tail(comps))

\* the name a path ends in: its last non-empty component
PathName(path) ==
    LET c == Components(path)
    IN  IF c = <<>> THEN <<>> ELSE c[Len(c)]

\* the characters a file name may hold
NameChars == Letters \cup Digits \cup {" ", "."}

\* a name that is empty, too long for a directory entry, or holds a
\* character other than a letter, a digit, a space or a period
BadName(n) ==
    \/ n = <<>>
    \/ Len(n) > EDFS_FILENAME_SIZE - 1
    \/ \E i \in 1..Len(n) : n[i] \notin NameChars

(***************************************************************************)
(* Properties.                                                             *)
(***************************************************************************)
\* C1 (as amended): after edfs_add_dir_entry(d, n, k) succeeds with a
\* non-zero inumber k, the directory scan of edfs_find_inode finds n in d
\* and yields k.
C1_InsertThenLookup ==
    (last.op = "add" /\ last.ret = 0 /\ last.arg[3] # 0) =>
        LET l == dir_lookup(blocks, InodeOf(inodes, last.arg[1]), last.arg[2])
        IN  l.ret = 0 /\ l.found /\ l.inumber = last.arg[3]

\* C1 as stated, for every inumber k: after edfs_add_dir_entry(d, n, k)
\* succeeds, the directory scan finds n in d and yields k.
C1_InsertThenLookupAnyInumber ==
    (last.op = "add" /\ last.ret = 0) =>
        LET l == dir_lookup(blocks, InodeOf(inodes, last.arg[1]), last.arg[2])
        IN  l.ret = 0 /\ l.found /\ l.inumber = last.arg[3]

\* C1: an insert of a non-zero inumber has succeeded in a directory one of
\* whose blocks is a hole.
C1_Witness ==
    /\ last.op = "add" /\ last.ret = 0 /\ last.arg[3] # 0
    /\ \E i \in 0..(NEntries - 1) : ~SlotOf(blocks, inodes[last.arg[1]], i).stored

\* C2: after edfs_remove_dir_entry(d, n) succeeds for a name n present in d,
\* the directory scan no longer finds n in d; edfs_remove_dir_entry of a
\* name not present in d returns -ENOENT.
C2_RemoveThenLookup ==
    [][last'.op = "remove" =>
        LET d == last'.arg[1]
            n == last'.arg[2]
            l == dir_lookup(blocks', InodeOf(inodes', d), n)
        IN  /\ (Present(blocks, inodes[d], n) /\ last'.ret = 0) =>
                  (l.ret = 0 /\ ~l.found)
            /\ ~Present(blocks, inodes[d], n) => last'.ret = -ENOENT]_vars

\* C2: a remove has succeeded.
C2_Witness ==
    /\ last.op = "remove" /\ last.ret = 0
    /\ ~Present(blocks, inodes[last.arg[1]], last.arg[2])

\* C7: edfs_add_dir_entry(d, n, k) into a directory that holds a present
\* entry named n returns -EEXIST and leaves every entry slot of d as it was.
C7_InsertExisting ==
    [][(last'.op = "add" /\ Present(blocks, inodes[last'.arg[1]], last'.arg[2])) =>
        /\ last'.ret = -EEXIST
        /\ \A i \in 0..(NEntries - 1) :
              SlotOf(blocks', inodes'[last'.arg[1]], i)
                  = SlotOf(blocks, inodes[last'.arg[1]], i)]_vars

\* C7: an insert has been refused with -EEXIST although a reusable slot
\* precedes the entry that holds the name.
C7_Witness ==
    /\ last.op = "add" /\ last.ret = -EEXIST
    /\ \E i \in PresentSlots(blocks, inodes[last.arg[1]], last.arg[2]) :
          \E j \in 0..(i - 1) :
              SlotOf(blocks, inodes[last.arg[1]], j).inumber = 0

\* C8: edfs_add_dir_entry or edfuse_mkdir with a name that is empty, longer
\* than EDFS_FILENAME_SIZE - 1, or holds a character other than a letter, a
\* digit, a space or a period fails and leaves the bitmap, the inode table
\* and the data blocks as they were.
C8_BadNameRejected ==
    [][(\/ last'.op = "add" /\ BadName(last'.arg[2])
        \/ last'.op = "mkdir" /\ BadName(PathName(last'.arg[1]))) =>
        /\ last'.ret < 0
        /\ UNCHANGED <<bitmap, inodes, blocks>>]_vars

\* C8: an insert of a name holding a separator has been refused.
C8_Witness ==
    last.op = "add" /\ last.arg[2] = <<"a", "/">> /\ last.ret = -EINVAL

\* C9: edfs_find_inode of a path made only of separators succeeds and
\* yields the inode whose inumber is the superblock's root_inumber.
C9_ResolveRoot ==
    (/\ last.op = "find"
     /\ last.arg[1] # <<>>
     /\ \A i \in 1..Len(last.arg[1]) : last.arg[1][i] = "/") =>
        /\ last.ret = 1
        /\ last.out = [inumber |-> sb.root_inumber,
                       inode |-> inodes[sb.root_inumber]]

\* C9: "//" has been resolved on an image whose root directory holds a
\* present entry.
C9_Witness ==
    /\ last.op = "find" /\ last.arg[1] = <<"/", "/">> /\ last.ret = 1
    /\ \E i \in 0..(NEntries - 1) :
          SlotOf(blocks, inodes[sb.root_inumber], i).inumber # 0

\* C10: edfs_find_inode succeeds only if every component of the path names
\* a present entry (inumber not 0) of the directory reached so far; when
\* some component has no such entry the resolution fails.
C10_ResolveOnlyPresent ==
    (last.op = "find" /\ last.ret = 1) =>
        /\ last.arg[1] # <<>>
        /\ Head(last.arg[1]) = "/"
        /\ ChainPresent(blocks, inodes, sb.root_inumber, Components(last.arg[1]))

\* C10: the resolution of "/a" has failed on an image whose root directory
\* holds the name "a" only in a cleared slot.
C10_Witness ==
    /\ last.op = "find" /\ last.arg[1] = <<"/", "a">> /\ last.ret = 0
    /\ \E i \in 0..(NEntries - 1) :
          LET e == SlotOf(blocks, inodes[sb.root_inumber], i)
          IN  e.stored /\ e.inumber = 0 /\ StringOf(e.filename) = <<"a">>

\* C3: after edfs_write_inode_data of bytes B at offset O into the file,
\* edfs_read_inode_data of Len(B) bytes at offset O yields Len(B) bytes equal
\* to B, whether or not the blocks covered were allocated before the write.
C3_WriteReadRoundTrip ==
    last.op = "write_data" =>
        LET B == last.arg[1]
            O == last.arg[2]
            r == edfs_read_inode_data(blocks, InodeOf(inodes, FileInumber),
                                      Zeros(Len(B)), Len(B), O)
        IN  r.ret = Len(B) /\ r.buf = B

\* C4: after edfs_write_inode_data has written size bytes at offset off,
\* ending past the file's size, the inode's size is off + size.
C4_WriteExtendsSize ==
    (/\ last.op = "write_data"
     /\ last.ret = Len(last.arg[1])
     /\ last.arg[2] + Len(last.arg[1]) > last.out) =>
        inodes[FileInumber].size = last.arg[2] + Len(last.arg[1])

\* C5: after edfs_write_inode(i, r) with i below the inode count,
\* edfs_read_inode(i) yields a record equal to r, and the record of every
\* other inumber is as it was.
C5_WriteInodeReadInode ==
    [][(last'.op = "write_inode" /\ last'.arg[1] < sb.inode_table_n_inodes) =>
        LET i == last'.arg[1]
            r == edfs_read_inode(inodes', [inumber |-> i, inode |-> ZeroDiskInode])
        IN  /\ last'.ret > 0
            /\ r.ret > 0
            /\ r.inode = [inumber |-> i, inode |-> last'.arg[2]]
            /\ \A j \in Inumbers \ {i} : inodes'[j] = inodes[j]]_vars

\* C5: a non-zero record has been written to the last inumber of a table
\* that holds another non-zero record.
C5_Witness ==
    /\ last.op = "write_inode" /\ last.arg[1] = MaxInodes - 1
    /\ last.arg[2] # ZeroDiskInode
    /\ inodes[MaxInodes - 1] = last.arg[2]
    /\ \E j \in Inumbers \ {MaxInodes - 1} : inodes[j] # ZeroDiskInode

\* C6 (as amended): edfs_bitmap_set(b) followed by edfs_bitmap_clear(b), b
\* below the block count, leaves the bitmap byte of b equal to its value
\* before the set with bit b cleared: unchanged when bit b was clear.
C6_SetThenClear ==
    (/\ last.op = "bitmap_clear"
     /\ last.out.prev.op = "bitmap_set"
     /\ last.out.prev.arg = last.arg
     /\ last.arg[1] < sb.n_blocks) =>
        LET b   == last.arg[1]
            old == last.out.prev.before[b \div 8]
        IN  bitmap[b \div 8] = old - BitOf(old, b % 8) * Pow2(b % 8)

\* C6 as stated, for every prior bitmap content: edfs_bitmap_set(b) followed
\* by edfs_bitmap_clear(b) leaves the bitmap byte of b equal to its value
\* before the set.
C6_SetThenClearUnchanged ==
    (/\ last.op = "bitmap_clear"
     /\ last.out.prev.op = "bitmap_set"
     /\ last.out.prev.arg = last.arg
     /\ last.arg[1] < sb.n_blocks) =>
        bitmap[last.arg[1] \div 8]
            = last.out.prev.before[last.arg[1] \div 8]

\* C6: a set and a clear of block b have been made on a bitmap whose byte
\* held bit b clear and another bit set.
C6_Witness ==
    /\ last.op = "bitmap_clear" /\ last.ret = 0
    /\ last.out.prev.op = "bitmap_set"
    /\ last.out.prev.arg = last.arg
    /\ BitOf(last.out.prev.before[last.arg[1] \div 8], last.arg[1] % 8) = 0
    /\ last.out.prev.before[last.arg[1] \div 8] # 0

\* the inumbers from 1 on whose stored type is FREE
FreeInumbers(tbl) ==
    {i \in 1..(sb.inode_table_n_inodes - 1) : tbl[i].type = EDFS_INODE_TYPE_FREE}

\* C11: edfs_new_inode takes from edfs_find_free_inode the smallest inumber
\* from 1 on whose stored type is FREE, and fails with -ENOSPC exactly when
\* no inumber from 1 on is FREE.
C11_FindFreeSmallest ==
    last.op = "new_inode" =>
        IF FreeInumbers(inodes) = {}
        THEN last.ret = -ENOSPC
        ELSE /\ last.ret = 0
             /\ last.out.inumber \in FreeInumbers(inodes)
             /\ \A j \in FreeInumbers(inodes) : last.out.inumber <= j
             /\ last.out.inode = [ZeroDiskInode EXCEPT !.type = last.arg[1]]

\* C11: edfs_new_inode has returned the last inumber of the table, every
\* inumber before it holding a non-free record, while inumber 0 is FREE.
C11_Witness ==
    /\ last.op = "new_inode" /\ last.ret = 0
    /\ last.out.inumber = MaxInodes - 1
    /\ inodes[0].type = EDFS_INODE_TYPE_FREE

\* C12: edfs_new_inode leaves the inode table as it was, the slot it chose
\* still FREE and chosen again by the next edfs_new_inode; once
\* edfs_write_inode has stored a non-free record in a slot, edfs_new_inode
\* does not return that slot; after edfs_clear_inode the slot is FREE again.
C12_TwoPhaseAllocation ==
    [][/\ last'.op = "new_inode" =>
            /\ inodes' = inodes
            /\ last'.ret = 0 =>
                  /\ inodes'[last'.out.inumber].type = EDFS_INODE_TYPE_FREE
                  /\ edfs_new_inode(inodes', last'.arg[1]) =
                         [ret |-> 0, inode |-> last'.out]
       /\ (/\ last'.op = "write_inode"
           /\ last'.arg[1] < sb.inode_table_n_inodes
           /\ last'.arg[2].type # EDFS_INODE_TYPE_FREE) =>
              LET n == edfs_new_inode(inodes', EDFS_INODE_TYPE_FILE)
              IN  n.ret = 0 => n.inode.inumber # last'.arg[1]
       /\ (/\ last'.op = "clear_inode"
           /\ last'.arg[1] \in 1..(sb.inode_table_n_inodes - 1)) =>
              LET n == edfs_new_inode(inodes', EDFS_INODE_TYPE_FILE)
              IN  n.ret = 0 /\ n.inode.inumber <= last'.arg[1]]_vars

\* C12: a non-free record has been written to a slot edfs_new_inode now
\* passes over for a later one.
C12_Witness ==
    /\ last.op = "write_inode"
    /\ last.arg[1] \in 1..(MaxInodes - 1)
    /\ last.arg[2].type # EDFS_INODE_TYPE_FREE
    /\ edfs_new_inode(inodes, EDFS_INODE_TYPE_FILE).ret = 0
    /\ edfs_new_inode(inodes, EDFS_INODE_TYPE_FILE).inode.inumber > last.arg[1]

(***************************************************************************)
(* SpecTree: the FUSE operations and the path resolver on images whose     *)
(* root directory holds one entry "a" for the inode with inumber 2.        *)
(***************************************************************************)
\* what "a" names: an empty directory; an empty directory that owns an
\* indirect block listing one data block; a file whose first four bytes
\* read as a directory entry "a"
TreeSubjects ==
    { [rec  |-> DirInode(<<3, 0>>), ind |-> ZeroBlock, data |-> ZeroBlock],
      [rec  |-> [DirInode(<<3, 0>>) EXCEPT !.indirect = 4],
       ind  |-> <<5, 0, 0, 0>>, data |-> ZeroBlock],
      [rec  |-> [FileInode(<<3, 0>>, 0) EXCEPT !.size = BlockSize],
       ind  |-> ZeroBlock, data |-> <<MaxInodes - 1, 1, 0, 0>>],
      [rec  |-> [FileInode(<<3, 0>>, 0) EXCEPT !.size = BlockSize],
       ind  |-> ZeroBlock, data |-> ZeroBlock] }

\* the image with "a" in the root directory naming subject
TreeImageOf(subject) ==
    LET tbl  == [i \in Inumbers |->
                    IF i = 1 THEN DirInode(<<1, 2>>)
                    ELSE IF i = 2 THEN subject.rec
                    ELSE ZeroDiskInode]
        blks == [b \in BlockNumbers |->
                    IF b = 1 THEN <<2, 1, 0, 0>>
                    ELSE IF b = 3 THEN subject.data
                    ELSE IF b = 4 THEN subject.ind
                    ELSE ZeroBlock]
    IN  [tbl |-> tbl, blks |-> blks, bm |-> BitmapOf(Referenced(tbl, blks))]

InitTree ==
    /\ sb = SuperBlock
    /\ uninit = 0
    /\ \E subject \in TreeSubjects :
          LET img == TreeImageOf(subject)
          IN  /\ inodes = img.tbl
              /\ blocks = img.blks
              /\ bitmap = img.bm
    /\ last = NoCall
    /\ proc = NoProc

NextTree ==
    \/ \E path \in CallPaths : FindInode(path)
    \/ \E path \in CallPaths : Mkdir(path)
    \/ \E path \in CallPaths : Rmdir(path)

SpecTree == InitTree /\ [][NextTree]_vars

\* C13: a bitmap bit is set iff its block is named by a direct or indirect
\* slot, or by the indirect block, of some non-free inode: this holds after
\* every mkdir and rmdir of a run that starts from an image where it holds.
C13_BitmapMatchesReferences ==
    \A b \in 0..(sb.n_blocks - 1) :
        BitOf(bitmap[b \div 8], b % 8) = 1 <=> b \in Referenced(inodes, blocks)

\* every component is looked up in an inode of type directory that holds a
\* present entry of that name, starting at inumber i
RECURSIVE ChainThroughDirectories(_, _, _, _)
ChainThroughDirectories(blks, tbl, i, comps) ==
    \/ comps = <<>>
    \/ /\ i \in DOMAIN tbl
       /\ tbl[i].type = EDFS_INODE_TYPE_DIRECTORY
       /\ Present(blks, tbl[i], Head(comps))
       /\ ChainThroughDirectories(blks, tbl,
              FirstPresent(blks, tbl[i], Head(comps)), Tail(comps))

\* C17: edfs_find_inode succeeds only if every inode in which it looks a
\* component up is a directory: it does not scan the data of a file as
\* directory entries.
C17_NoDescentIntoNonDirectory ==
    (last.op = "find" /\ last.ret = 1) =>
        ChainThroughDirectories(blocks, inodes, sb.root_inumber,
                                Components(last.arg[1]))

\* the inumber the components lead to from inumber i, through present
\* entries
RECURSIVE Resolve(_, _, _, _)
Resolve(blks, tbl, i, comps) ==
    IF comps = <<>> THEN i
    ELSE Resolve(blks, tbl, FirstPresent(blks, tbl[i], Head(comps)), Tail(comps))

\* C20: after edfuse_rmdir(path) returns 0 the parent holds no present entry
\* of the path's last component and the path no longer resolves, the bit of
\* every direct block of the removed inode is clear, the removed inode's
\* record is all-zero, every other inode record is as it was, and no unit
\* of any block has changed but those of the entry removed.
C20_RmdirEffect ==
    [][(last'.op = "rmdir" /\ last'.ret = 0) =>
        LET comps  == Components(last'.arg[1])
            name   == comps[Len(comps)]
            parent == Resolve(blocks, inodes, sb.root_inumber,
                              SubSeq(comps, 1, Len(comps) - 1))
            target == Resolve(blocks, inodes, sb.root_inumber, comps)
            S      == PresentSlots(blocks, inodes[parent], name)
            slot   == CHOOSE i \in S : \A j \in S : i <= j
            at     == slot * SizeofDirEntry
            blk    == inodes[parent].direct[at \div BlockSize + 1]
        IN  /\ ~Present(blocks', inodes'[parent], name)
            /\ ~edfs_find_inode(blocks', inodes', last'.arg[1]).ok
            /\ \A d \in 1..EDFS_INODE_N_DIRECT_BLOCKS :
                  LET b == inodes[target].direct[d]
                  IN  b # EDFS_BLOCK_INVALID =>
                          BitOf(bitmap'[b \div 8], b % 8) = 0
            /\ inodes'[target] = ZeroDiskInode
            /\ \A j \in Inumbers \ {target} : inodes'[j] = inodes[j]
            /\ \A b \in BlockNumbers, u \in 1..BlockSize :
                  blocks'[b][u] # blocks[b][u] =>
                      /\ b = blk
                      /\ u \in {(at % BlockSize) + 1, (at % BlockSize) + 2}]_vars

\* C20: a directory that owned a data block has been removed: its entry in
\* the root directory is cleared, its record is FREE and the bit of its
\* block is clear.
C20_Witness ==
    /\ last.op = "rmdir" /\ last.ret = 0 /\ last.arg[1] = <<"/", "a">>
    /\ inodes[2] = ZeroDiskInode
    /\ BitOf(bitmap[0], 3) = 0

\* ---------------------------------------------------------------------
\* Reads over a hole (SpecData)
\* ---------------------------------------------------------------------

\* the physical block behind logical block id of the file, 0 when none
PhysicalOf(blks, rec, id) ==
    IF id < EDFS_INODE_N_DIRECT_BLOCKS THEN rec.direct[id + 1]
    ELSE IF rec.indirect = EDFS_BLOCK_INVALID THEN EDFS_BLOCK_INVALID
    ELSE blks[rec.indirect][id - EDFS_INODE_N_DIRECT_BLOCKS + 1]

\* the logical blocks the byte range [off, off + size) covers
BlocksOfRange(size, off) == (off \div BlockSize)..((off + size - 1) \div BlockSize)

\* the holes among them
HolesOfRange(blks, rec, size, off) ==
    { id \in BlocksOfRange(size, off) :
        PhysicalOf(blks, rec, id) = EDFS_BLOCK_INVALID }

\* the range starts in an allocated block and meets a hole later
HoleBehindData(blks, rec, size, off) ==
    /\ off + size <= (EDFS_INODE_N_DIRECT_BLOCKS + BlockSize \div SizeofBlockT)
                         * BlockSize
    /\ HolesOfRange(blks, rec, size, off) # {}
    /\ (off \div BlockSize) \notin HolesOfRange(blks, rec, size, off)

\* the bytes of the range that lie before its first hole
BytesBeforeHole(blks, rec, size, off) ==
    LET H     == HolesOfRange(blks, rec, size, off)
        first == CHOOSE h \in H : \A g \in H : h <= g
    IN  first * BlockSize - off

\* C14: a read of the file over a range whose first blocks are allocated
\* and a later block is a hole returns the number of bytes transferred
\* from the blocks before the hole
C14_ShortReadCount ==
    (/\ last.op = "read_data"
     /\ HoleBehindData(blocks, inodes[FileInumber], last.arg[1], last.arg[2]))
    => last.ret = BytesBeforeHole(blocks, inodes[FileInumber],
                                  last.arg[1], last.arg[2])

(***************************************************************************)
(* SpecSlots: inserts and removes on the root directory with enough names  *)
(* to fill every slot of it.                                               *)
(***************************************************************************)
\* the names the callers of SpecSlots insert and remove
SlotNames == { <<"a">>, <<"b">>, <<"c">>, <<"d">>, <<"e">> }

\* edfs_add_dir_entry on the root directory; out is the call made before
InsertEntry(name, k) ==
    \E r \in {edfs_add_dir_entry(blocks, InodeOf(inodes, sb.root_inumber),
                                 name, k)} :
        /\ blocks' = r.blks
        /\ last' = [op |-> "add", arg |-> <<sb.root_inumber, name, k>>,
                    ret |-> r.ret,
                    out |-> [op |-> last.op, arg |-> last.arg,
                             ret |-> last.ret]]
        /\ UNCHANGED <<sb, bitmap, inodes, uninit, proc>>

NextSlots ==
    \/ \E name \in SlotNames : InsertEntry(name, MaxInodes - 1)
    \/ \E name \in SlotNames : RemoveDirEntry(sb.root_inumber, name)

SpecSlots == Init /\ [][NextSlots]_vars

\* the slots of rec an insert may take: a hole, or an entry whose inumber
\* is the invalid one
ReusableSlots(blks, rec) ==
    {i \in 0..(NEntries - 1) :
        \/ ~SlotOf(blks, rec, i).stored
        \/ SlotOf(blks, rec, i).inumber = EDFS_BLOCK_INVALID}

\* C15: an insert that succeeds writes its entry at the first reusable slot
\* of the directory and changes no other slot; an insert fails with -ENOMSG
\* only when the directory has no reusable slot; and after a successful
\* remove that left no more than one reusable slot, the insert of a name
\* the directory does not hold succeeds at that slot.
C15_ReuseClearedSlot ==
    [][last'.op = "add" =>
        LET rec  == inodes[sb.root_inumber]
            R    == ReusableSlots(blocks, rec)
            slot == CHOOSE i \in R : \A j \in R : i <= j
            name == last'.arg[2]
        IN  /\ last'.ret = 0 =>
                  /\ R # {}
                  /\ SlotOf(blocks', rec, slot)
                        = [stored |-> TRUE, inumber |-> last'.arg[3],
                           filename |-> FilenameOf(name)]
                  /\ \A i \in 0..(NEntries - 1) \ {slot} :
                        SlotOf(blocks', rec, i) = SlotOf(blocks, rec, i)
            /\ last'.ret = -ENOMSG => R = {}
            /\ (/\ last.op = "remove" /\ last.ret = 0
                /\ Cardinality(R) <= 1
                /\ ~Present(blocks, rec, name))
               => /\ last'.ret = 0
                  /\ R = {slot}
                  /\ StringOf(SlotOf(blocks', rec, slot).filename) = name]_vars

\* C15: every slot of the root directory holds a present entry, the call
\* before the insert just made was a successful remove of another name, and
\* the insert succeeded: it took the slot the remove had cleared.
C15_Witness ==
    /\ last.op = "add" /\ last.ret = 0
    /\ last.out.op = "remove" /\ last.out.ret = 0
    /\ last.out.arg[2] # last.arg[2]
    /\ ReusableSlots(blocks, inodes[sb.root_inumber]) = {}

(***************************************************************************)
(* SpecList: listing the root directory and the directory with inumber 2,  *)
(* beside inserts, removes and rmdir.                                      *)
(***************************************************************************)
\* edfs_disk_inode_is_directory
edfs_disk_inode_is_directory(rec) == rec.type = EDFS_INODE_TYPE_DIRECTORY

\* the loop of edfuse_readdir from entry i on; names are those handed to
\* filler so far: [ret, names]
RECURSIVE readdir_from(_, _, _, _)
readdir_from(blks, inode, i, names) ==
    IF i >= NEntries THEN [ret |-> 0, names |-> names]
    ELSE LET tmp == read_entry(blks, inode, i)
         IN  IF tmp.ret < 0 THEN [ret |-> -1, names |-> names]
             ELSE IF tmp.ret = 0 THEN readdir_from(blks, inode, i + 1, names)
             ELSE IF tmp.inumber = EDFS_BLOCK_INVALID
             THEN readdir_from(blks, inode, i + 1, names)
             ELSE readdir_from(blks, inode, i + 1,
                               Append(names, StringOf(tmp.filename)))

\* edfuse_readdir: [ret, names]
edfuse_readdir(blks, tbl, path) ==
    CHOOSE out \in
      { IF ~f.ok THEN [ret |-> -ENOENT, names |-> <<>>]
        ELSE IF ~edfs_disk_inode_is_directory(f.inode.inode)
        THEN [ret |-> -ENOTDIR, names |-> <<>>]
        ELSE readdir_from(blks, f.inode, 0, << <<".">>, <<".", ".">> >>) :
        f \in {edfs_find_inode(blks, tbl, path)} } : TRUE

\* the directories the callers of SpecList work on
ListDirs == {1, 2}

\* the names they insert and remove
ListNames == { <<"a">>, <<"b">>, <<"c">> }

\* the paths they list and remove
ListPaths == { Slash, Slash \o <<"a">>, Slash \o <<"b">>, <<"a">> }

\* edfs_get_dir_entries on the directory with inumber d
GetDirEntries(d) ==
    \E r \in {edfs_get_dir_entries(blocks, InodeOf(inodes, d))} :
        /\ last' = [op |-> "get_dir_entries", arg |-> <<d>>, ret |-> r.ret,
                    out |-> r.entries]
        /\ UNCHANGED <<sb, bitmap, inodes, blocks, uninit, proc>>

\* edfuse_readdir
ReadDir(path) ==
    \E r \in {edfuse_readdir(blocks, inodes, path)} :
        /\ last' = [op |-> "readdir", arg |-> <<path>>, ret |-> r.ret,
                    out |-> r.names]
        /\ UNCHANGED <<sb, bitmap, inodes, blocks, uninit, proc>>

NextList ==
    \/ \E d \in ListDirs, name \in ListNames :
          AddDirEntry(d, name, MaxInodes - 1)
    \/ \E d \in ListDirs, name \in ListNames : RemoveDirEntry(d, name)
    \/ \E d \in ListDirs : GetDirEntries(d)
    \/ \E path \in ListPaths : ReadDir(path)
    \/ \E path \in ListPaths : Rmdir(path)

SpecList == Init /\ [][NextList]_vars

\* the slots of rec that hold a present entry
PresentSlotsOf(blks, rec) ==
    {i \in 0..(NEntries - 1) :
        /\ SlotOf(blks, rec, i).stored
        /\ SlotOf(blks, rec, i).inumber # EDFS_BLOCK_INVALID}

\* the present entries of rec in ascending slot order
PresentEntries(blks, rec) ==
    LET P == PresentSlotsOf(blks, rec)
        nth(k) == CHOOSE i \in P : Cardinality({j \in P : j < i}) = k - 1
    IN  [k \in 1..Cardinality(P) |->
            [inumber |-> SlotOf(blks, rec, nth(k)).inumber,
             filename |-> SlotOf(blks, rec, nth(k)).filename]]

\* C16: edfs_get_dir_entries returns exactly the present entries of the
\* directory in ascending slot order and their number; edfuse_readdir of a
\* directory hands filler ".", ".." and then the names of exactly those
\* entries in that order; and edfuse_rmdir of a directory without present
\* entries gets past the emptiness check and removes it.
C16_ListPresentEntries ==
    /\ [](last.op = "get_dir_entries" =>
            /\ last.out = PresentEntries(blocks, inodes[last.arg[1]])
            /\ last.ret = Len(last.out))
    /\ [](last.op = "readdir" =>
            LET f == edfs_find_inode(blocks, inodes, last.arg[1])
                E == PresentEntries(blocks, f.inode.inode)
            IN  (f.ok /\ f.inode.inode.type = EDFS_INODE_TYPE_DIRECTORY) =>
                    /\ last.ret = 0
                    /\ last.out = << <<".">>, <<".", ".">> >>
                                  \o [k \in 1..Len(E) |->
                                         StringOf(E[k].filename)])
    /\ [][last'.op = "rmdir" =>
            LET f == edfs_find_inode(blocks, inodes, last'.arg[1])
            IN  (/\ f.ok
                 /\ edfs_check_filename(PathName(last'.arg[1])) = 0
                 /\ PresentEntries(blocks, f.inode.inode) = <<>>)
                => last'.ret = 0]_vars

\* C16: a listing has returned two entries of a directory in which a slot
\* that holds no present entry precedes a present one.
C16_Witness ==
    /\ last.op = "get_dir_entries" /\ last.ret >= 2
    /\ \E i \in PresentSlotsOf(blocks, inodes[last.arg[1]]) :
          \E j \in 0..(i - 1) :
              j \notin PresentSlotsOf(blocks, inodes[last.arg[1]])

(***************************************************************************)
(* SpecAlloc: two callers allocate an inode as edfuse_mkdir does,          *)
(* edfs_new_inode and then edfs_write_inode, with no lock between them.    *)
(* Each pread and each pwrite on the image is one step.                    *)
(***************************************************************************)
InFlight(p) == proc[p].pc \notin {"idle", "done"}

\* the caller enters edfs_new_inode: the scan starts at inumber 1
AllocBegin(p, type) ==
    /\ proc[p].pc = "idle"
    /\ proc' = [proc EXCEPT ![p] =
                  [pc |-> "scan", op |-> "new_inode", arg |-> type,
                   inumber |-> 1, data |-> 0, ret |-> 0,
                   concurrent |-> InFlight(Other(p))]]
    /\ UNCHANGED <<sb, bitmap, inodes, blocks, uninit, last>>

\* one turn of the loop of edfs_find_free_inode, and the return of
\* edfs_new_inode when the loop ends
AllocScan(p) ==
    /\ proc[p].pc = "scan"
    /\ \E r \in {edfs_read_inode(inodes, [inumber |-> proc[p].inumber,
                                          inode |-> ZeroDiskInode])} :
          proc' = [proc EXCEPT ![p] =
              IF ~(proc[p].inumber < sb.inode_table_n_inodes)
              THEN [@ EXCEPT !.pc = "done", !.inumber = 0, !.ret = -ENOSPC]
              ELSE IF r.ret > 0 /\ r.inode.inode.type = EDFS_INODE_TYPE_FREE
              THEN [@ EXCEPT !.pc = "write"]
              ELSE [@ EXCEPT !.inumber = @ + 1]]
    /\ UNCHANGED <<sb, bitmap, inodes, blocks, uninit, last>>

\* edfs_write_inode of the record edfs_new_inode filled in
AllocWrite(p) ==
    /\ proc[p].pc = "write"
    /\ \E w \in {edfs_write_inode(inodes,
                    [inumber |-> proc[p].inumber,
                     inode |-> [ZeroDiskInode EXCEPT !.type = proc[p].arg]])} :
          /\ inodes' = w.tbl
          /\ proc' = [proc EXCEPT ![p] =
                        [@ EXCEPT !.pc = "done",
                                  !.ret = IF w.ret < 0 THEN w.ret ELSE 0]]
    /\ UNCHANGED <<sb, bitmap, blocks, uninit, last>>

\* the inode tables the callers start from: the root directory and any of
\* the other inodes in use
InitAlloc ==
    /\ sb = SuperBlock
    /\ uninit = 0
    /\ \E used \in SUBSET (Inumbers \ {0, 1}) :
          inodes = [i \in Inumbers |->
                      IF i = 1 THEN DirInode(<<1, 2>>)
                      ELSE IF i \in used THEN FileInode(<<0, 0>>, 0)
                      ELSE ZeroDiskInode]
    /\ blocks = ImageOf(<<1, 2>>, ZeroBlock).blks
    /\ bitmap = ImageOf(<<1, 2>>, ZeroBlock).bm
    /\ last = NoCall
    /\ proc = NoProc

NextAlloc ==
    \/ \E p \in Callers,
          type \in {EDFS_INODE_TYPE_FILE, EDFS_INODE_TYPE_DIRECTORY} :
          AllocBegin(p, type)
    \/ \E p \in Callers : AllocScan(p)
    \/ \E p \in Callers : AllocWrite(p)

SpecAlloc == InitAlloc /\ [][NextAlloc]_vars

\* both callers have written the record of their inode
BothCommitted ==
    \A p \in Callers :
        proc[p].pc = "done" /\ proc[p].op = "new_inode" /\ proc[p].ret = 0

\* C18: two callers that allocate without a lock can commit to one inode
\* slot, and do so only through the window between scan and write: when
\* both have written their record to the same inumber, one of them began
\* its scan while the other was between the start of its scan and the end
\* of its write.
C18_SameInumberOnlyWhenOverlapping ==
    (BothCommitted /\ proc[1].inumber = proc[2].inumber)
    => (proc[1].concurrent \/ proc[2].concurrent)

\* C18: both callers have committed to the same inumber with records of
\* different types; the slot holds only one of them.
C18_Witness ==
    /\ BothCommitted
    /\ proc[1].inumber = proc[2].inumber
    /\ proc[1].inumber # 0
    /\ proc[1].arg # proc[2].arg
    /\ inodes[proc[1].inumber].type \in {proc[1].arg, proc[2].arg}

(***************************************************************************)
(* SpecBits: two callers of edfs_bitmap_set / edfs_bitmap_clear with no    *)
(* lock between them.  The pread and the pwrite of a call are two steps.   *)
(***************************************************************************)
\* the blocks the callers mark: two that share the first byte, the last
\* block and one past it
RaceBlocks == {1, 3, MaxBlocks - 1, MaxBlocks}

\* the caller enters edfs_bitmap_set or edfs_bitmap_clear
BitmapBegin(p, op, block) ==
    /\ proc[p].pc = "idle"
    /\ proc' = [proc EXCEPT ![p] =
                  IF block >= sb.n_blocks
                  THEN [pc |-> "done", op |-> op, arg |-> block,
                        inumber |-> 0, data |-> 0, ret |-> -EINVAL,
                        concurrent |-> InFlight(Other(p))]
                  ELSE [pc |-> "pread", op |-> op, arg |-> block,
                        inumber |-> 0, data |-> 0, ret |-> 0,
                        concurrent |-> InFlight(Other(p))]]
    /\ UNCHANGED <<sb, bitmap, inodes, blocks, uninit, last>>

\* pread(img->fd, &bitmap_data, 1, byte_off)
BitmapPread(p) ==
    /\ proc[p].pc = "pread"
    /\ proc' = [proc EXCEPT ![p] =
                  [@ EXCEPT !.pc = "pwrite",
                            !.data = bitmap[proc[p].arg \div 8]]]
    /\ UNCHANGED <<sb, bitmap, inodes, blocks, uninit, last>>

\* bitmap_data |= 1 << bit_off; pwrite(img->fd, &bitmap_data, 1, byte_off)
BitmapSetPwrite(p) ==
    /\ proc[p].pc = "pwrite" /\ proc[p].op = "bitmap_set"
    /\ bitmap' = [bitmap EXCEPT ![proc[p].arg \div 8] =
                    OrBit(proc[p].data, proc[p].arg % 8)]
    /\ proc' = [proc EXCEPT ![p] = [@ EXCEPT !.pc = "done", !.ret = 0]]
    /\ UNCHANGED <<sb, inodes, blocks, uninit, last>>

\* bitmap_data &= ~(1 << bit_off); pwrite(img->fd, &bitmap_data, 1, byte_off)
BitmapClearPwrite(p) ==
    /\ proc[p].pc = "pwrite" /\ proc[p].op = "bitmap_clear"
    /\ bitmap' = [bitmap EXCEPT ![proc[p].arg \div 8] =
                    AndNotBit(proc[p].data, proc[p].arg % 8)]
    /\ proc' = [proc EXCEPT ![p] = [@ EXCEPT !.pc = "done", !.ret = 0]]
    /\ UNCHANGED <<sb, inodes, blocks, uninit, last>>

\* the bitmaps the callers start from: that of the empty root directory,
\* with block 3 free or in use
InitBits ==
    /\ sb = SuperBlock
    /\ uninit = 0
    /\ inodes = ImageOf(<<1, 2>>, ZeroBlock).tbl
    /\ blocks = ImageOf(<<1, 2>>, ZeroBlock).blks
    /\ bitmap \in {BitmapOf({1, 2}), BitmapOf({1, 2, 3})}
    /\ last = NoCall
    /\ proc = NoProc

NextBits ==
    \/ \E p \in Callers, op \in {"bitmap_set", "bitmap_clear"},
          block \in RaceBlocks : BitmapBegin(p, op, block)
    \/ \E p \in Callers : BitmapPread(p)
    \/ \E p \in Callers : BitmapSetPwrite(p)
    \/ \E p \in Callers : BitmapClearPwrite(p)

SpecBits == InitBits /\ [][NextBits]_vars

\* both callers have returned 0 from calls on distinct blocks of one byte
BothReturned ==
    /\ \A p \in Callers :
          /\ proc[p].pc = "done" /\ proc[p].ret = 0
          /\ proc[p].op \in {"bitmap_set", "bitmap_clear"}
    /\ proc[1].arg # proc[2].arg
    /\ proc[1].arg \div 8 = proc[2].arg \div 8

\* the bit of the caller's block holds what its call asked for
TookEffect(p) ==
    BitOf(bitmap[proc[p].arg \div 8], proc[p].arg % 8)
        = IF proc[p].op = "bitmap_set" THEN 1 ELSE 0

\* C19: two callers of edfs_bitmap_set / edfs_bitmap_clear on distinct
\* blocks of one byte can lose one caller's bit change although both
\* returned 0, and do so only through the window between the pread and
\* the pwrite of the byte: when a bit change is lost, one of the callers
\* began its call while the other was inside its own.
C19_LostUpdateOnlyWhenOverlapping ==
    (BothReturned /\ \E p \in Callers : ~TookEffect(p))
    => (proc[1].concurrent \/ proc[2].concurrent)

\* C19: both calls returned 0 and the bit of one caller's block does not
\* hold what that caller's call asked for.
C19_Witness ==
    /\ BothReturned
    /\ \E p \in Callers : ~TookEffect(p) /\ TookEffect(Other(p))

\* ---------------------------------------------------------------------
\* rmdir of a path that names no directory (SpecTree)
\* ---------------------------------------------------------------------

\* C21: edfuse_rmdir of a path that resolves to an inode whose type is not
\* DIRECTORY fails and leaves the data blocks (so the parent directory),
\* the bitmap and the inode table as they were.
C21_RmdirOfNonDirectoryFails ==
    [][last'.op = "rmdir" =>
        LET f == edfs_find_inode(blocks, inodes, last'.arg[1])
        IN  (f.ok /\ f.inode.inode.type # EDFS_INODE_TYPE_DIRECTORY) =>
                /\ last'.ret < 0
                /\ UNCHANGED <<blocks, bitmap, inodes>>]_vars

\* ---------------------------------------------------------------------
\* A directory made by mkdir as a parent (Spec)
\* ---------------------------------------------------------------------
PathA == Slash \o <<"a">>

PathAB == Slash \o <<"a">> \o Slash \o NameMax

\* C22: after edfuse_mkdir("/a") has succeeded, "/a" resolves to an inode
\* of type DIRECTORY, and a following edfuse_mkdir of a name inside "/a",
\* made while the inode table has a free inode, succeeds and the new path
\* resolves to a directory inode other than that of "/a".
C22_MkdirThenMkdirInside ==
    [][(/\ last.op = "mkdir" /\ last.ret = 0 /\ last.arg[1] = PathA
        /\ last'.op = "mkdir" /\ last'.arg[1] = PathAB
        /\ FreeInumbers(inodes) # {})
       => LET a == edfs_find_inode(blocks, inodes, PathA)
              b == edfs_find_inode(blocks', inodes', PathAB)
          IN  /\ a.ok
              /\ a.inode.inode.type = EDFS_INODE_TYPE_DIRECTORY
              /\ last'.ret = 0
              /\ b.ok
              /\ b.inode.inode.type = EDFS_INODE_TYPE_DIRECTORY
              /\ b.inode.inumber # a.inode.inumber]_vars

\* C22: after edfuse_mkdir("/a") has succeeded, "/a" resolves to an inode
\* of type DIRECTORY.
C22_MkdirResolves ==
    (last.op = "mkdir" /\ last.ret = 0 /\ last.arg[1] = PathA)
    => LET a == edfs_find_inode(blocks, inodes, PathA)
       IN  a.ok /\ a.inode.inode.type = EDFS_INODE_TYPE_DIRECTORY

\* ---------------------------------------------------------------------
\* A mkdir that fails (Spec)
\* ---------------------------------------------------------------------

\* C23: an edfuse_mkdir that returns an error leaves every inode that was
\* FREE before the call FREE.
C23_FailedMkdirAllocatesNothing ==
    [][(last'.op = "mkdir" /\ last'.ret < 0) =>
        \A i \in Inumbers :
            inodes[i].type = EDFS_INODE_TYPE_FREE
                => inodes'[i].type = EDFS_INODE_TYPE_FREE]_vars

\* ---------------------------------------------------------------------
\* The root inode under mkdir and rmdir (Spec)
\* ---------------------------------------------------------------------

\* no stored directory entry of a directory inode names the root inode
RootUnreferenced ==
    \A d \in Inumbers :
        inodes[d].type = EDFS_INODE_TYPE_DIRECTORY =>
            \A i \in 0..(NEntries - 1) :
                SlotOf(blocks, inodes[d], i).inumber # sb.root_inumber

\* C24: through every sequence of edfuse_mkdir and edfuse_rmdir from an
\* image whose root inode is a directory that no directory entry names,
\* the root inode keeps type DIRECTORY, edfs_find_free_inode never returns
\* the root inumber, and no step changes the root inode's record.
C24_RootInodeKept ==
    /\ [](/\ inodes[sb.root_inumber].type = EDFS_INODE_TYPE_DIRECTORY
          /\ edfs_find_free_inode(inodes) # sb.root_inumber
          /\ RootUnreferenced)
    /\ [][inodes'[sb.root_inumber] = inodes[sb.root_inumber]]_vars

\* C24: edfuse_rmdir has been called on the root directory itself, on an
\* image in which edfuse_mkdir has made a directory and an inode is still
\* free; the root inode is a directory as before.
C24_Witness ==
    /\ last.op = "rmdir" /\ last.arg[1] = Slash
    /\ \E i \in Inumbers \ {0} : inodes[i].type = EDFS_INODE_TYPE_FREE
    /\ \E i \in Inumbers \ {sb.root_inumber} :
          /\ inodes[i].type = EDFS_INODE_TYPE_DIRECTORY
          /\ inodes[i].direct = <<0, 0>>
    /\ inodes[sb.root_inumber].type = EDFS_INODE_TYPE_DIRECTORY

\* ---------------------------------------------------------------------
\* Ranges whose end wraps (SpecData)
\* ---------------------------------------------------------------------

\* the logical blocks an inode can address
AddressableBlocks ==
    0..(EDFS_INODE_N_DIRECT_BLOCKS + BlockSize \div SizeofBlockT - 1)

\* the byte of the file at position pos; -1 where the file has no byte: in
\* a hole
FileByte(blks, rec, pos) ==
    LET b == PhysicalOf(blks, rec, pos \div BlockSize)
    IN  IF b \in BlockNumbers THEN blks[b][(pos % BlockSize) + 1] ELSE -1

\* C25: edfs_read_inode_data and edfs_write_inode_data return size only
\* when size bytes went between the buffer and the file: the range
\* [off, off + size) then lies within the offsets a uint32_t holds, and
\* where it lies within the blocks the inode can address, every byte of
\* the buffer equals the byte of the file at its position.
C25_SizeOnlyWhenTransferred ==
    (/\ last.op \in {"read_data", "write_data"}
     /\ last.ret > 0
     /\ last.ret = (IF last.op = "read_data" THEN last.arg[1]
                    ELSE Len(last.arg[1])))
    => LET buf  == IF last.op = "read_data" THEN last.out ELSE last.arg[1]
           off  == last.arg[2]
           size == last.ret
       IN  /\ off + size <= UINT32_MAX
           /\ (\A pos \in off..(off + size - 1) :
                  pos \div BlockSize \in AddressableBlocks)
              => \A i \in 1..size :
                    FileByte(blocks, inodes[FileInumber], off + i - 1) = buf[i]

====
